---- MODULE Spec2Model ----
(***************************************************************************)
(* Model of src/extract.py:                                                *)
(*                                                                         *)
(*     with zipfile.ZipFile('pixel-sanctuary.zip', 'r') as zip_ref:        *)
(*         zip_ref.extractall('.')                                         *)
(*     print("Extraction completed")                                       *)
(*                                                                         *)
(* The script is three statements; what they do is what CPython's zipfile  *)
(* does for them (ZipFile.__init__, extractall, _extract_member, getinfo,   *)
(* __exit__), so the definitions below follow that control flow step by    *)
(* step.  A path is the sequence of its components ("d/b" is <<"d","b">>,   *)
(* "../a" is <<"..","a">>, the directory entry "d/" is <<"d","">>); file    *)
(* content is a sequence of bytes.                                         *)
(***************************************************************************)
EXTENDS Integers, Sequences, FiniteSets, TLC

\* ---- bounds -------------------------------------------------------------
MaxEntries == 2          \* entries in the archive's central directory
MaxRuns == 2             \* consecutive runs of the script on one destination

\* ---- the destination tree and the archive --------------------------------
Absent == [kind |-> "absent", data |-> <<>>]
Dir == [kind |-> "dir", data |-> <<>>]
File(c) == [kind |-> "file", data |-> c]

Contents == {<<1>>, <<2>>}

\* The paths of the model: three paths under the destination that entries
\* can be extracted to, one path under the destination that no entry names
\* ("z"), and the path "../a", which lies outside the destination.
FsPaths == {<<"a">>, <<"d">>, <<"d", "b">>, <<"z">>, <<"..", "a">>}

FileNames == {<<"a">>, <<"..", "a">>, <<"d", "b">>, <<"d">>}
DirNames == {<<"d", "">>}

\* Central-directory records: stored name, stored content, and whether the
\* entry's local header or its compressed data is damaged.
EntrySet ==
    {[filename |-> n, data |-> c, damage |-> "none"] : n \in FileNames, c \in Contents}
    \cup {[filename |-> <<"a">>, data |-> <<1>>, damage |-> "crc"],
          [filename |-> <<"d", "b">>, data |-> <<1>>, damage |-> "header"]}
    \cup {[filename |-> n, data |-> <<>>, damage |-> "none"] : n \in DirNames}

FileLists == UNION {[1..n -> EntrySet] : n \in 0..MaxEntries}

\* What can lie at 'pixel-sanctuary.zip': nothing, bytes with no readable
\* central directory, or a zip file with a central directory.
Archives ==
    {[status |-> "missing", filelist |-> <<>>],
     [status |-> "unparseable", filelist |-> <<>>]}
    \cup {[status |-> "valid", filelist |-> fl] : fl \in FileLists}

dirname(p) == IF p = <<>> THEN <<>> ELSE SubSeq(p, 1, Len(p) - 1)

\* The destination directory itself is <<>> and is always a directory; so
\* is "..", the parent of the destination.
Lookup(f, p) == IF p \in DOMAIN f THEN f[p] ELSE Dir

InitialTrees ==
    {f \in [FsPaths -> {Absent, Dir} \cup {File(c) : c \in Contents}] :
        /\ f[<<"a">>] \in {Absent, Dir, File(<<1>>)}
        /\ f[<<"d">>] \in {Absent, Dir, File(<<1>>)}
        /\ f[<<"d", "b">>] \in {Absent, File(<<2>>)}
        /\ f[<<"z">>] \in {Absent, File(<<1>>)}
        /\ f[<<"..", "a">>] = Absent
        /\ \A p \in FsPaths : f[p] # Absent => Lookup(f, dirname(p)).kind = "dir"}

VARIABLES archive, fs, unwritable, pc, handle, idx, err, stdout, exit,
          run, fs0, prevFs

vars == <<archive, fs, unwritable, pc, handle, idx, err, stdout, exit,
          run, fs0, prevFs>>

Init ==
    /\ archive \in Archives
    /\ fs \in InitialTrees
    /\ unwritable \in {{}, {<<"a">>}}
    /\ pc = "open"
    /\ handle = "none"
    /\ idx = 1
    /\ err = "none"
    /\ stdout = <<>>
    /\ exit = -1
    /\ run = 1
    /\ fs0 = fs
    /\ prevFs = fs

\* ---- zipfile helpers ------------------------------------------------------

\* ZipInfo.is_dir: the stored name ends with '/'.
is_dir(e) == Len(e.filename) > 0 /\ e.filename[Len(e.filename)] = ""

\* Variant of Sanitize that keeps '..' (no protection against "../" names).
Sanitize_keepdotdot(name) == SelectSeq(name, LAMBDA x : x \notin {"", "."})

\* _extract_member: '', '.' and '..' components are dropped from the name.
invalid_path_parts == {"", ".", ".."}
Sanitize(name) == SelectSeq(name, LAMBDA x : x \notin invalid_path_parts)

\* Variant of getinfo that resolves a name to its first record.
getinfo_first(name) ==
    LET fl == archive.filelist
        first == CHOOSE i \in 1..Len(fl) :
                     /\ fl[i].filename = name
                     /\ \A j \in 1..(i - 1) : fl[j].filename # name
    IN fl[first]

\* ZipFile.getinfo: NameToInfo[name]; _RealGetContents fills the dict in
\* central-directory order, so a later record replaces an earlier one of
\* the same name.
getinfo(name) ==
    LET fl == archive.filelist
        last == CHOOSE i \in 1..Len(fl) :
                    /\ fl[i].filename = name
                    /\ \A j \in (i + 1)..Len(fl) : fl[j].filename # name
    IN fl[last]

IsPrefix(q, p) == Len(q) <= Len(p) /\ SubSeq(p, 1, Len(q)) = q

\* os.makedirs(upperdirs)
makedirsFails(f, p) ==
    \E q \in DOMAIN f : IsPrefix(q, p) /\ q # p /\ f[q].kind = "file"
makedirs(f, p) ==
    [q \in DOMAIN f |-> IF IsPrefix(q, p) /\ f[q].kind = "absent" THEN Dir ELSE f[q]]

\* Variant of OpenTargetFails for exclusive creation (mode "xb"): an
\* existing file at the target is an error.
OpenTargetFails_exclusive(f, t) ==
    \/ t = <<>>
    \/ Lookup(f, t).kind # "absent"
    \/ Lookup(f, dirname(t)).kind # "dir"
    \/ t \in unwritable

\* open(targetpath, "wb") raises
OpenTargetFails(f, t) ==
    \/ t = <<>>
    \/ Lookup(f, t).kind = "dir"
    \/ Lookup(f, dirname(t)).kind # "dir"
    \/ t \in unwritable

\* Variant of WriteFile for append mode (mode "ab"): the bytes are added
\* after the ones already in the file.
WriteFile_append(f, t, c) == [f EXCEPT ![t] = File(f[t].data \o c)]

\* open(targetpath, "wb") + shutil.copyfileobj
WriteFile(f, t, c) == [f EXCEPT ![t] = File(c)]

\* the chunks copied before the CRC check at end of data raises
ProperPrefixes(c) == {SubSeq(c, 1, k) : k \in 0..(Len(c) - 1)}

Raise(f, kind) ==
    /\ fs' = f
    /\ err' = kind
    /\ pc' = "unwind"
    /\ UNCHANGED idx

Continue(f) ==
    /\ fs' = f
    /\ idx' = idx + 1
    /\ UNCHANGED <<err, pc>>

\* ---- the steps of the script ---------------------------------------------

\* Variant of OpenArchive for mode 'a': a missing archive is created empty
\* and the with body is entered.
OpenArchive_create ==
    /\ pc = "open"
    /\ CASE archive.status = "unparseable" ->
              /\ err' = "ArchiveCorrupt"
              /\ pc' = "failed"
              /\ exit' = 1
              /\ handle' = "closed"
         [] OTHER ->
              /\ handle' = "open"
              /\ pc' = "extract"
              /\ UNCHANGED <<err, exit>>
    /\ UNCHANGED <<archive, fs, unwritable, idx, stdout, run, fs0, prevFs>>

\* Variant of OpenArchive that does not read the central directory on
\* construction: bytes that are not a zip file are taken for an archive
\* without entries.
OpenArchive_unchecked ==
    /\ pc = "open"
    /\ CASE archive.status = "missing" ->
              /\ err' = "ArchiveNotFound"
              /\ pc' = "failed"
              /\ exit' = 1
              /\ UNCHANGED handle
         [] OTHER ->
              /\ handle' = "open"
              /\ pc' = "extract"
              /\ UNCHANGED <<err, exit>>
    /\ UNCHANGED <<archive, fs, unwritable, idx, stdout, run, fs0, prevFs>>

\* zipfile.ZipFile('pixel-sanctuary.zip', 'r'): io.open raises
\* FileNotFoundError; _RealGetContents raises BadZipFile and the constructor
\* closes the file before re-raising.  Neither enters the with body.
OpenArchive ==
    /\ pc = "open"
    /\ CASE archive.status = "missing" ->
              /\ err' = "ArchiveNotFound"
              /\ pc' = "failed"
              /\ exit' = 1
              /\ UNCHANGED handle
         [] archive.status = "unparseable" ->
              /\ err' = "ArchiveCorrupt"
              /\ pc' = "failed"
              /\ exit' = 1
              /\ handle' = "closed"
         [] OTHER ->
              /\ handle' = "open"
              /\ pc' = "extract"
              /\ UNCHANGED <<err, exit>>
    /\ UNCHANGED <<archive, fs, unwritable, idx, stdout, run, fs0, prevFs>>

\* One iteration of extractall's loop over namelist(): _extract_member.
ExtractMember ==
    /\ pc = "extract"
    /\ idx <= Len(archive.filelist)
    /\ LET member == getinfo(archive.filelist[idx].filename)
           targetpath == Sanitize(member.filename)
           upperdirs == dirname(targetpath)
           needDirs == upperdirs # <<>> /\ Lookup(fs, upperdirs).kind = "absent"
           fs1 == IF needDirs THEN makedirs(fs, upperdirs) ELSE fs
       IN IF needDirs /\ makedirsFails(fs, upperdirs)
          THEN Raise(fs, "FilesystemWrite")
          ELSE IF is_dir(member)
          THEN IF Lookup(fs1, targetpath).kind = "dir"
               THEN Continue(fs1)
               ELSE IF Lookup(fs1, targetpath).kind = "file"
                       \/ Lookup(fs1, dirname(targetpath)).kind # "dir"
               THEN Raise(fs1, "FilesystemWrite")
               ELSE Continue([fs1 EXCEPT ![targetpath] = Dir])
          ELSE IF member.damage = "header"
          THEN Raise(fs1, "ArchiveCorrupt")
          ELSE IF OpenTargetFails(fs1, targetpath)
          THEN Raise(fs1, "FilesystemWrite")
          ELSE IF member.damage = "crc"
          THEN \E part \in ProperPrefixes(member.data) :
                   Raise(WriteFile(fs1, targetpath, part), "ArchiveCorrupt")
          ELSE Continue(WriteFile(fs1, targetpath, member.data))
    /\ UNCHANGED <<archive, unwritable, handle, stdout, exit, run, fs0, prevFs>>

\* Variant of ZipFileExit without the with statement's cleanup on the
\* exception path: the handle is closed only when the loop ends normally.
ZipFileExit_noclose ==
    /\ \/ pc = "extract" /\ idx > Len(archive.filelist)
       \/ pc = "unwind"
    /\ IF pc = "unwind"
       THEN pc' = "failed" /\ exit' = 1 /\ UNCHANGED handle
       ELSE pc' = "print" /\ handle' = "closed" /\ UNCHANGED exit
    /\ UNCHANGED <<archive, fs, unwritable, idx, err, stdout, run, fs0, prevFs>>

\* Variant of ZipFileExit whose __exit__ returns True: the exception is
\* swallowed and the script goes on to the print statement.
ZipFileExit_swallow ==
    /\ \/ pc = "extract" /\ idx > Len(archive.filelist)
       \/ pc = "unwind"
    /\ handle' = "closed"
    /\ pc' = "print"
    /\ UNCHANGED <<archive, fs, unwritable, idx, err, stdout, exit, run, fs0, prevFs>>

\* ZipFile.__exit__ -> close(): runs when the loop is over and when an
\* exception unwinds through the with statement; it returns None, so the
\* exception goes on to the top level and the interpreter exits with 1.
ZipFileExit ==
    /\ \/ pc = "extract" /\ idx > Len(archive.filelist)
       \/ pc = "unwind"
    /\ handle' = "closed"
    /\ IF pc = "unwind"
       THEN pc' = "failed" /\ exit' = 1
       ELSE pc' = "print" /\ UNCHANGED exit
    /\ UNCHANGED <<archive, fs, unwritable, idx, err, stdout, run, fs0, prevFs>>

\* Variant of PrintCompleted that prints the line twice.
PrintCompleted_twice ==
    /\ pc = "print"
    /\ stdout' = stdout \o <<"Extraction completed", "Extraction completed">>
    /\ pc' = "done"
    /\ exit' = 0
    /\ UNCHANGED <<archive, fs, unwritable, handle, idx, err, run, fs0, prevFs>>

\* Variant of PrintCompleted placed inside the with body: the line is
\* printed when the loop is over, before __exit__ has run.
PrintCompleted_inside ==
    /\ pc \in {"print", "extract"}
    /\ pc = "extract" => idx > Len(archive.filelist)
    /\ stdout' = Append(stdout, "Extraction completed")
    /\ pc' = "done"
    /\ exit' = 0
    /\ UNCHANGED <<archive, fs, unwritable, handle, idx, err, run, fs0, prevFs>>

\* print("Extraction completed"), then the script ends.
PrintCompleted ==
    /\ pc = "print"
    /\ stdout' = Append(stdout, "Extraction completed")
    /\ pc' = "done"
    /\ exit' = 0
    /\ UNCHANGED <<archive, fs, unwritable, handle, idx, err, run, fs0, prevFs>>

\* The script is started again on the same archive and destination.
RunAgain ==
    /\ pc = "done"
    /\ run < MaxRuns
    /\ run' = run + 1
    /\ prevFs' = fs
    /\ pc' = "open"
    /\ handle' = "none"
    /\ idx' = 1
    /\ stdout' = <<>>
    /\ exit' = -1
    /\ UNCHANGED <<archive, fs, unwritable, err, fs0>>

Next ==
    \/ OpenArchive
    \/ ExtractMember
    \/ ZipFileExit
    \/ PrintCompleted
    \/ RunAgain

Spec == Init /\ [][Next]_vars

TypeOK ==
    /\ archive \in Archives
    /\ pc \in {"open", "extract", "unwind", "print", "done", "failed"}
    /\ handle \in {"none", "open", "closed"}
    /\ err \in {"none", "ArchiveNotFound", "ArchiveCorrupt", "FilesystemWrite"}
    /\ exit \in {-1, 0, 1}
    /\ run \in 1..MaxRuns

\* ---- vocabulary of the properties ----------------------------------------

Terminal == pc \in {"done", "failed"}

FileList == archive.filelist

\* destinationDir joined with the stored relative path, normalised: the
\* place the stored path itself names ("../a" is outside the destination).
StoredPath(name) == SelectSeq(name, LAMBDA x : x \notin {"", "."})

\* The place extraction puts an entry: the stored path without its empty,
\* '.' and '..' components.
TargetPath(name) == SelectSeq(name, LAMBDA x : x \notin {"", ".", ".."})

NamesDirectory(name) == Len(name) > 0 /\ name[Len(name)] = ""

\* The last entry, in archive order, that is extracted to path t.
LastAt(t) ==
    CHOOSE i \in 1..Len(FileList) :
        /\ TargetPath(FileList[i].filename) = t
        /\ \A j \in (i + 1)..Len(FileList) : TargetPath(FileList[j].filename) # t

\* The last entry, in archive order, stored under the given name.
LastNamed(name) ==
    CHOOSE i \in 1..Len(FileList) :
        /\ FileList[i].filename = name
        /\ \A j \in (i + 1)..Len(FileList) : FileList[j].filename # name

\* Destination paths that are the target of an entry or a directory above one.
Touched ==
    {q \in FsPaths : \E i \in 1..Len(FileList) : IsPrefix(q, TargetPath(FileList[i].filename))}

Damaged ==
    \/ archive.status = "unparseable"
    \/ \E i \in 1..Len(FileList) : FileList[i].damage # "none"

\* ---- C1 -------------------------------------------------------------------

\* Every stored path of the archive names a place under the destination.
StoredUnderDestination ==
    \A i \in 1..Len(FileList) :
        StoredPath(FileList[i].filename) = TargetPath(FileList[i].filename)

\* C1 as stated, for the archives whose stored paths all lie under the
\* destination: after a successful run on a non-empty archive, every entry
\* exists at its stored relative path under the destination, holding the
\* entry's own stored content (a directory entry exists as a directory).
C1_Original ==
    (pc = "done" /\ FileList # <<>> /\ StoredUnderDestination) =>
        \A i \in 1..Len(FileList) :
            LET e == FileList[i]
                p == StoredPath(e.filename)
            IN IF NamesDirectory(e.filename)
               THEN Lookup(fs, p).kind = "dir"
               ELSE Lookup(fs, p) = File(e.data)

\* C1 (amended): after a successful run on a non-empty archive, every entry
\* exists at its stored path with the empty, '.' and '..' components removed;
\* a file there holds the stored content of the last entry of the archive
\* that is extracted to that path, and a directory entry is a directory.
C1_EntriesExtracted ==
    (pc = "done" /\ FileList # <<>>) =>
        \A i \in 1..Len(FileList) :
            LET e == FileList[i]
                t == TargetPath(e.filename)
            IN IF NamesDirectory(e.filename)
               THEN Lookup(fs, t).kind = "dir"
               ELSE Lookup(fs, t) = File(FileList[LastAt(t)].data)

\* A successful first run over two entries that share a target and differ in
\* content, which changed the destination.
C1_Witness ==
    /\ pc = "done"
    /\ run = 1
    /\ fs # fs0
    /\ \E i, j \in 1..Len(FileList) :
           /\ i < j
           /\ TargetPath(FileList[i].filename) = TargetPath(FileList[j].filename)
           /\ FileList[i].data # FileList[j].data

\* ---- C2 -------------------------------------------------------------------

\* C2: extraction is idempotent: when a run that follows a successful run on
\* the same archive and destination succeeds, the destination is what the
\* previous run left.
C2_Idempotent ==
    (pc = "done" /\ run >= 2) => fs = prevFs

\* A second successful run over a destination the first run had changed.
C2_Witness ==
    /\ pc = "done"
    /\ run = 2
    /\ FileList # <<>>
    /\ prevFs # fs0

\* ---- C3 -------------------------------------------------------------------

\* C3: when the archive file does not exist the run fails with
\* ArchiveNotFound before creating any output: the destination stays as it
\* was, nothing is printed and the with body is never entered.
C3_ArchiveNotFound ==
    archive.status = "missing" =>
        /\ fs = fs0
        /\ stdout = <<>>
        /\ pc \in {"open", "failed"}
        /\ pc = "failed" => (err = "ArchiveNotFound" /\ exit = 1 /\ handle = "none")

\* The run on a missing archive has terminated, in a destination with files.
C3_Witness ==
    /\ archive.status = "missing"
    /\ pc = "failed"
    /\ fs[<<"z">>] # Absent

\* ---- C4 -------------------------------------------------------------------

\* C4 as stated, for the runs that do end with ArchiveCorrupt: the archive is
\* present but damaged, and when the run terminates no entry has been
\* written and the destination holds no partial output.
C4_Original ==
    (Terminal /\ Damaged /\ err = "ArchiveCorrupt") => (idx = 1 /\ fs = fs0)

\* C4 (amended): when the central directory of the archive cannot be read
\* the run fails with ArchiveCorrupt on opening it, with the destination
\* unchanged and nothing printed; when the damage is in an entry, the run
\* fails with ArchiveCorrupt only on reaching that entry, and prints nothing.
C4_CorruptArchive ==
    /\ archive.status = "unparseable" =>
           /\ fs = fs0
           /\ stdout = <<>>
           /\ pc \in {"open", "failed"}
           /\ pc = "failed" => (err = "ArchiveCorrupt" /\ exit = 1 /\ handle # "open")
    /\ (archive.status = "valid" /\ err = "ArchiveCorrupt") =>
           /\ idx <= Len(FileList)
           /\ FileList[LastNamed(FileList[idx].filename)].damage # "none"
           /\ stdout = <<>>
           /\ pc \in {"unwind", "failed"}

\* The run on an unreadable archive has terminated, in a destination with files.
C4_Witness ==
    /\ archive.status = "unparseable"
    /\ pc = "failed"
    /\ fs[<<"z">>] # Absent

\* ---- C5 -------------------------------------------------------------------

\* C5: a run prints at most one line; a successful run has printed exactly
\* the line "Extraction completed" and exits with status 0, and only a run
\* that printed it exits with status 0.
C5_OneConfirmation ==
    /\ Len(stdout) <= 1
    /\ pc = "done" => (stdout = <<"Extraction completed">> /\ exit = 0)
    /\ exit = 0 => pc = "done"

\* A successful run over a non-empty archive.
C5_Witness ==
    /\ pc = "done"
    /\ exit = 0
    /\ FileList # <<>>

\* ---- C6 -------------------------------------------------------------------

\* C6: the confirmation line is printed only after every entry has been
\* extracted and the archive handle has been closed.
C6_MessageAfterRelease ==
    stdout # <<>> =>
        /\ archive.status = "valid"
        /\ idx > Len(FileList)
        /\ handle = "closed"

\* The line has been printed after the extraction of two or more entries.
C6_Witness ==
    /\ stdout # <<>>
    /\ Len(FileList) >= 2
    /\ fs # fs0

\* ---- C7 -------------------------------------------------------------------

\* C7: no terminal state has the archive handle open, and a handle that was
\* acquired has been closed in every terminal state.
C7_HandleReleased ==
    Terminal =>
        /\ handle # "open"
        /\ archive.status = "valid" => handle = "closed"

\* The run failed while extracting an entry and the handle is closed.
C7_Witness ==
    /\ pc = "failed"
    /\ err \in {"FilesystemWrite", "ArchiveCorrupt"}
    /\ archive.status = "valid"
    /\ handle = "closed"

\* ---- C8 -------------------------------------------------------------------

\* C8: once a step has failed, nothing is printed, the only step left is the
\* one that ends the program with a non-zero status, and that step writes
\* nothing, extracts no further entry and keeps the failure.
C8_FailFast ==
    /\ [](err # "none" =>
            /\ stdout = <<>>
            /\ pc \in {"unwind", "failed"}
            /\ pc = "failed" => exit = 1)
    /\ [][err # "none" =>
            /\ fs' = fs
            /\ idx' = idx
            /\ err' = err
            /\ stdout' = <<>>
            /\ pc' = "failed"
            /\ exit' = 1]_vars

\* The run has failed on a write with entries of the archive still to come.
C8_Witness ==
    /\ pc = "failed"
    /\ err = "FilesystemWrite"
    /\ idx < Len(FileList)

\* ---- C9 -------------------------------------------------------------------

\* C9 as stated: for every entry whose target held a file before the run, a
\* successful run leaves the entry's own stored content there, and a run
\* never fails on a write to a target that holds a writable file.
C9_Original ==
    /\ (pc = "done" /\ run = 1) =>
           \A i \in 1..Len(FileList) :
               LET e == FileList[i]
                   t == TargetPath(e.filename)
               IN fs0[t].kind = "file" => fs[t] = File(e.data)
    /\ (archive.status = "valid" /\ err = "FilesystemWrite") =>
           LET t == TargetPath(FileList[idx].filename)
           IN fs[t].kind = "file" => t \in unwritable

\* C9 (amended): for every file entry whose target held a file before the
\* run, a successful run leaves there the stored content of the last entry
\* extracted to that target, whatever was there before; a run never fails on
\* the write of a file entry to a target that holds a writable file.  (A
\* directory entry whose target holds a file does fail the run.)
C9_Overwrite ==
    /\ (pc = "done" /\ run = 1) =>
           \A i \in 1..Len(FileList) :
               LET e == FileList[i]
                   t == TargetPath(e.filename)
               IN fs0[t].kind = "file" => fs[t] = File(FileList[LastAt(t)].data)
    /\ (archive.status = "valid" /\ err = "FilesystemWrite") =>
           LET e == FileList[idx]
               t == TargetPath(e.filename)
           IN (fs[t].kind = "file" /\ ~NamesDirectory(e.filename)) => t \in unwritable

\* A successful first run replaced a file by different content.
C9_Witness ==
    /\ pc = "done"
    /\ run = 1
    /\ \E i \in 1..Len(FileList) :
           LET t == TargetPath(FileList[i].filename)
           IN /\ fs0[t].kind = "file"
              /\ fs[t].kind = "file"
              /\ fs[t] # fs0[t]

\* ---- C10 ------------------------------------------------------------------

====
